---------------------------- MODULE Spec2Model ----------------------------
(***************************************************************************)
(* A model of momoa's Rust JSON / JSONC front end: the cursor model, the   *)
(* character-level readers, the token iterator and the recursive-descent   *)
(* parser with its one-token lookahead.                                    *)
(*                                                                         *)
(* Characters are Unicode scalar values (integers).  The input text is a   *)
(* sequence of characters; byte offsets are computed from the UTF-8 length *)
(* of each character, as Rust's str indexing does.                         *)
(***************************************************************************)
EXTENDS Integers, Sequences, FiniteSets, TLC

VARIABLES
    text,                   \* Parser.text: the input
    allow_trailing_commas,  \* ParserOptions.allow_trailing_commas
    it,                     \* Parser.it: the token iterator (position, cursor, mode)
    loc,                    \* Parser.loc
    tokens,                 \* Parser.tokens
    peeked,                 \* Parser.peeked
    log,                    \* history: every item the iterator has yielded
    stack,                  \* call stack of parse_array / parse_object frames
    pc,                     \* control point of the parser
    body,                   \* parse(): the body, once parse_value has returned
    result                  \* what parse() returned (or that it panicked)

vars == <<text, allow_trailing_commas, it, loc, tokens, peeked, log,
          stack, pc, body, result>>

-----------------------------------------------------------------------------
(* Characters *)

CharNames ==
    {"[", "]", "{", "}", ",", ":", "\"", "\\", "/", "*", "-", "+", ".", " ",
     "\t", "\n", "\r", "backspace", "formfeed", "0", "1", "2", "9", "a", "b",
     "c", "e", "f", "l", "n", "r", "s", "t", "u", "x", "A", "E", "F",
     "e-acute", "arabic-3"}

\* The Unicode scalar value of each character the model names.
OrdTable ==
    [s \in CharNames |->
        CASE s = "[" -> 91 [] s = "]" -> 93 [] s = "{" -> 123 [] s = "}" -> 125
          [] s = "," -> 44 [] s = ":" -> 58 [] s = "\"" -> 34 [] s = "\\" -> 92
          [] s = "/" -> 47 [] s = "*" -> 42 [] s = "-" -> 45 [] s = "+" -> 43
          [] s = "." -> 46 [] s = " " -> 32 [] s = "\t" -> 9 [] s = "\n" -> 10
          [] s = "\r" -> 13 [] s = "backspace" -> 8 [] s = "formfeed" -> 12
          [] s = "0" -> 48 [] s = "1" -> 49 [] s = "2" -> 50 [] s = "9" -> 57
          [] s = "a" -> 97 [] s = "b" -> 98 [] s = "c" -> 99 [] s = "e" -> 101
          [] s = "f" -> 102 [] s = "l" -> 108 [] s = "n" -> 110 [] s = "r" -> 114
          [] s = "s" -> 115 [] s = "t" -> 116 [] s = "u" -> 117 [] s = "x" -> 120
          [] s = "A" -> 65 [] s = "E" -> 69 [] s = "F" -> 70
          [] s = "e-acute" -> 233      \* U+00E9, two bytes in UTF-8
          [] s = "arabic-3" -> 1635]   \* U+0663, a non-ASCII decimal digit

Ord(s) == OrdTable[s]

\* No character: what Peekable::peek / next give at the end of the input.
NoChar == -1

\* char::len_utf8
len_utf8(c) == IF c < 128 THEN 1 ELSE IF c < 2048 THEN 2 ELSE IF c < 65536 THEN 3 ELSE 4

\* the pattern '0'..='9'
IsAsciiDigit(c) == c >= 48 /\ c <= 57

\* char::is_digit(10)
is_digit10(c) == IsAsciiDigit(c)

\* char::is_numeric: the Unicode categories Nd, Nl, No.  Of the characters
\* the model draws from, the ASCII digits and U+0663.
is_numeric(c) == IsAsciiDigit(c) \/ c = 1635

\* char::is_ascii_hexdigit
is_ascii_hexdigit(c) ==
    IsAsciiDigit(c) \/ (c >= 65 /\ c <= 70) \/ (c >= 97 /\ c <= 102)

\* Peekable::peek on the characters of txt, the iterator standing before pos.
PeekChar(txt, pos) == IF pos <= Len(txt) THEN txt[pos] ELSE NoChar

-----------------------------------------------------------------------------
(* Location *)

Location(l, c, o) == [line |-> l, column |-> c, offset |-> o]

\* A cursor that moves back: the offset is decreased by the characters read.
advance_offset_back(cursor, char_count) ==
    [line |-> cursor.line,
     column |-> cursor.column + char_count,
     offset |-> cursor.offset - char_count]

advance(cursor, char_count) ==
    [line |-> cursor.line,
     column |-> cursor.column + char_count,
     offset |-> cursor.offset + char_count]

advance_new_line(cursor) ==
    [line |-> cursor.line + 1, column |-> 1, offset |-> cursor.offset + 1]

advance_and_new_line(cursor, char_count) ==
    [line |-> cursor.line + 1, column |-> 1,
     offset |-> cursor.offset + char_count]

LocationRange(s, e) == [start |-> s, end |-> e]

-----------------------------------------------------------------------------
(* Errors *)

UnexpectedCharacter(c, l) ==
    [type |-> "UnexpectedCharacter", c |-> c, line |-> l.line, column |-> l.column]

UnexpectedEndOfInput(l) ==
    [type |-> "UnexpectedEndOfInput", line |-> l.line, column |-> l.column]

UnexpectedToken(kind, l) ==
    [type |-> "UnexpectedToken", unexpected |-> kind,
     line |-> l.line, column |-> l.column]

\* A reader's return: Result<Location, MomoaError>, and where it left the
\* character iterator.
ROk(l, pos) == [ok |-> TRUE, loc |-> l, pos |-> pos]
RErr(e, pos) == [ok |-> FALSE, error |-> e, pos |-> pos]

-----------------------------------------------------------------------------
(* Readers.  Each takes the text, the position of the character iterator   *)
(* and the cursor at the token's start, and returns the cursor after the   *)
(* token or an error, with the position it left the iterator at.           *)

RECURSIVE read_keyword_from(_, _, _, _, _)
read_keyword_from(word, txt, pos, cursor, len) ==
    IF len = Len(word)
    THEN ROk(advance(cursor, Len(word)), pos)
    ELSE LET actual == PeekChar(txt, pos) IN
         IF actual = word[len + 1]
         THEN read_keyword_from(word, txt, pos + 1, cursor, len + 1)
         ELSE IF actual # NoChar
         THEN RErr(UnexpectedCharacter(actual, advance(cursor, len)), pos)
         ELSE RErr(UnexpectedEndOfInput(advance(cursor, len)), pos)

\* An error is positioned at the start of the token.
read_keyword_error_at_start(word, txt, pos, cursor) ==
    LET AtStart(r) ==
            IF r.ok THEN r ELSE [r EXCEPT !.error.column = cursor.column]
    IN  AtStart(read_keyword_from(word, txt, pos, cursor, 0))

read_keyword(word, txt, pos, cursor) == read_keyword_from(word, txt, pos, cursor, 0)

\* The characters that may follow a backslash, 'u' apart.
SimpleEscapes ==
    {Ord("\""), Ord("\\"), Ord("/"), Ord("b"), Ord("f"), Ord("n"), Ord("r"), Ord("t")}

\* for _i in 0..4 { match it.next() ... }: i digits are still to be read.
RECURSIVE read_hex_digits(_, _, _, _, _)
read_hex_digits(txt, pos, cursor, len, i) ==
    IF i = 0 THEN [ok |-> TRUE, pos |-> pos, len |-> len]
    ELSE LET nc == PeekChar(txt, pos) IN
         IF nc = NoChar
         THEN RErr(UnexpectedEndOfInput(advance(cursor, len)), pos)
         ELSE IF is_ascii_hexdigit(nc)
         THEN read_hex_digits(txt, pos + 1, cursor, len + 1, i - 1)
         ELSE RErr(UnexpectedCharacter(nc, advance(cursor, len)), pos + 1)

\* while let Some(&c) = it.peek() { ... } of read_string, and what follows it
RECURSIVE read_string_body(_, _, _, _)
read_string_body(txt, pos, cursor, len) ==
    LET c == PeekChar(txt, pos) IN
    IF c = NoChar
    THEN RErr(UnexpectedEndOfInput(advance(cursor, len)), pos)
    ELSE IF c = Ord("\"")
    THEN ROk(advance(cursor, len + 1), pos + 1)
    ELSE IF c = Ord("\\")
    THEN LET e == PeekChar(txt, pos + 1) IN
         IF e \in SimpleEscapes
         THEN read_string_body(txt, pos + 2, cursor, len + 2)
         ELSE IF e = Ord("u")
         THEN LET After(h) ==
                      IF h.ok THEN read_string_body(txt, h.pos, cursor, h.len)
                      ELSE h
              IN  After(read_hex_digits(txt, pos + 2, cursor, len + 2, 4))
         ELSE IF e # NoChar
         THEN RErr(UnexpectedCharacter(e, advance(cursor, len + 1)), pos + 1)
         ELSE RErr(UnexpectedEndOfInput(advance(cursor, len + 1)), pos + 1)
    ELSE read_string_body(txt, pos + 1, cursor, len + 1)

read_string(txt, pos, cursor) ==
    LET quote == PeekChar(txt, pos) IN
    IF quote = Ord("\"") THEN read_string_body(txt, pos + 1, cursor, 1)
    ELSE IF quote # NoChar THEN RErr(UnexpectedCharacter(quote, cursor), pos)
    ELSE RErr(UnexpectedEndOfInput(cursor), pos)

\* while let Some(&c) = it.peek() { match c { '0'..='9' => consume, _ => break } }
\* (and the same loop written with is_digit(10)): the position after the digits.
RECURSIVE skip_digits(_, _)
skip_digits(txt, pos) ==
    IF IsAsciiDigit(PeekChar(txt, pos)) THEN skip_digits(txt, pos + 1) ELSE pos

\* read_number from "and now let's check for E or e" on; len characters are read.
read_number_exponent(txt, pos, cursor, len) ==
    LET has_e == PeekChar(txt, pos) \in {Ord("e"), Ord("E")} IN
    IF ~has_e THEN ROk(advance(cursor, len), pos)
    ELSE LET has_sign == PeekChar(txt, pos + 1) \in {Ord("-"), Ord("+")}
             p == IF has_sign THEN pos + 2 ELSE pos + 1
             l == IF has_sign THEN len + 2 ELSE len + 1
             has_digit == is_digit10(PeekChar(txt, p))
         IN  IF ~has_digit
             THEN RErr(UnexpectedEndOfInput(advance(cursor, l)), p)
             ELSE LET q == skip_digits(txt, p + 1) IN
                  ROk(advance(cursor, l + (q - p)), q)

\* read_number from "at this point, we need to check for a dot" on.
read_number_fraction(txt, pos, cursor, len) ==
    IF PeekChar(txt, pos) = Ord(".")
    THEN IF PeekChar(txt, pos + 1) = NoChar
         THEN RErr(UnexpectedEndOfInput(advance(cursor, len + 1)), pos + 1)
         ELSE LET q == skip_digits(txt, pos + 1) IN
              read_number_exponent(txt, q, cursor, len + (q - pos))
    ELSE read_number_exponent(txt, pos, cursor, len)

\* A digit after a leading zero is let through.
leading_zero_allowed(first_zero, c) == FALSE

\* '0'..='9' => { if first_zero { return Err(..) } .. }
leading_zero_then_digit(first_zero, c) == first_zero /\ IsAsciiDigit(c)

read_number(txt, pos, cursor) ==
    LET minus == PeekChar(txt, pos) = Ord("-")
        p == IF minus THEN pos + 1 ELSE pos
        len == IF minus THEN 1 ELSE 0
        c == PeekChar(txt, p)
    IN  IF c = NoChar THEN RErr(UnexpectedEndOfInput(advance(cursor, len)), p)
        ELSE IF ~is_numeric(c) THEN RErr(UnexpectedCharacter(c, advance(cursor, len)), p)
        ELSE LET first_zero == c = Ord("0")
                 d == PeekChar(txt, p + 1)
             IN  IF leading_zero_then_digit(first_zero, d)
                 THEN RErr(UnexpectedCharacter(d, advance(cursor, len + 1)), p + 1)
                 ELSE LET q == skip_digits(txt, p + 1) IN
                      read_number_fraction(txt, q, cursor, len + (q - p))

RECURSIVE read_line_comment_from(_, _, _, _)
read_line_comment_from(txt, pos, cursor, len) ==
    LET c == PeekChar(txt, pos) IN
    IF c = NoChar \/ c = Ord("\n")
    THEN ROk(advance(cursor, len), pos)
    ELSE read_line_comment_from(txt, pos + 1, cursor, len + 1)

\* the // was read outside of this function
read_line_comment(txt, pos, cursor) == read_line_comment_from(txt, pos, cursor, 2)

RECURSIVE read_block_comment_from(_, _, _, _, _, _)
read_block_comment_from(txt, pos, cursor, len, comment_cursor, last_char) ==
    LET c == PeekChar(txt, pos) IN
    IF c = NoChar
    THEN \* the loop ends with complete = false
         RErr(UnexpectedEndOfInput(advance(cursor, len)), pos)
    ELSE LET cc == IF last_char = Ord("\n")
                   THEN advance_and_new_line(comment_cursor, len)
                   ELSE comment_cursor
             l == IF last_char = Ord("\n") THEN 1 ELSE len + 1
         IN  IF c = Ord("*")
             THEN LET n == PeekChar(txt, pos + 1) IN
                  IF n = Ord("/") THEN ROk(advance(cc, l + 1), pos + 2)
                  ELSE IF n # NoChar
                  THEN read_block_comment_from(txt, pos + 1, cursor, l, cc, c)
                  ELSE RErr(UnexpectedEndOfInput(advance(cc, l)), pos + 1)
             ELSE read_block_comment_from(txt, pos + 1, cursor, l, cc, c)

\* The two characters of the /* are left out of the length.
read_block_comment_without_opener(txt, pos, cursor) ==
    read_block_comment_from(txt, pos, cursor, 0, cursor, Ord("*"))

\* the /* was read outside of this function
read_block_comment(txt, pos, cursor) ==
    read_block_comment_from(txt, pos, cursor, 2, cursor, Ord("*"))

-----------------------------------------------------------------------------
(* Tokens: the token iterator.  Its state is the position of the character *)
(* iterator, the cursor and the mode.                                      *)

None == [kind |-> "None"]
Ok(t) == [kind |-> "Ok", token |-> t]
Err(e) == [kind |-> "Err", error |-> e]

Token(kind, start, end) == [kind |-> kind, loc |-> LocationRange(start, end)]

\* An iterator that starts one character into the text in JSON mode.
Tokens_new_by_mode(md) ==
    [pos |-> IF md = "Json" THEN 2 ELSE 1, cursor |-> Location(1, 1, 0), mode |-> md]

Tokens_new(md) == [pos |-> 1, cursor |-> Location(1, 1, 0), mode |-> md]

\* The lookup table from punctuation character to token kind.
char_tokens(c) ==
    CASE c = Ord("[") -> "LBracket" [] c = Ord("]") -> "RBracket"
      [] c = Ord("{") -> "LBrace"   [] c = Ord("}") -> "RBrace"
      [] c = Ord(",") -> "Comma"    [] c = Ord(":") -> "Colon"

\* What next() makes of a reader's result: on success the token, the cursor
\* moved to its end; on failure the error, the cursor left where it was (the
\* characters the reader consumed stay consumed).
Tokens_emit(t, kind, r) ==
    IF r.ok
    THEN [it |-> [t EXCEPT !.pos = r.pos, !.cursor = r.loc],
          item |-> Ok(Token(kind, t.cursor, r.loc))]
    ELSE [it |-> [t EXCEPT !.pos = r.pos], item |-> Err(r.error)]

\* The '/' branch of next().
Tokens_comment(txt, t) ==
    LET n == PeekChar(txt, t.pos + 1) IN
    IF t.mode # "Jsonc"
    THEN [it |-> t, item |-> Err(UnexpectedCharacter(Ord("/"), t.cursor))]
    ELSE IF n = Ord("/")
    THEN Tokens_emit(t, "LineComment", read_line_comment(txt, t.pos + 2, t.cursor))
    ELSE IF n = Ord("*")
    THEN Tokens_emit(t, "BlockComment", read_block_comment(txt, t.pos + 2, t.cursor))
    ELSE IF n # NoChar
    THEN [it |-> [t EXCEPT !.pos = t.pos + 1],
          item |-> Err(UnexpectedCharacter(n, advance(t.cursor, 1)))]
    ELSE [it |-> [t EXCEPT !.pos = t.pos + 1],
          item |-> Err(UnexpectedEndOfInput(advance(t.cursor, 1)))]

\* Iterator::next for Tokens: the next token, an error, or None at the end.
RECURSIVE Tokens_next(_, _)
Tokens_next(txt, t) ==
    LET c == PeekChar(txt, t.pos) IN
    IF c = NoChar THEN [it |-> t, item |-> None]
    ELSE IF c = Ord("-") \/ IsAsciiDigit(c)
    THEN Tokens_emit(t, "Number", read_number(txt, t.pos, t.cursor))
    ELSE IF c \in {Ord("["), Ord("]"), Ord("{"), Ord("}"), Ord(":"), Ord(",")}
    THEN [it |-> [t EXCEPT !.pos = t.pos + 1, !.cursor = advance(t.cursor, 1)],
          item |-> Ok(Token(char_tokens(c), t.cursor, advance(t.cursor, 1)))]
    ELSE IF c = Ord("\"")
    THEN Tokens_emit(t, "String", read_string(txt, t.pos, t.cursor))
    ELSE IF c = Ord("n")
    THEN Tokens_emit(t, "Null",
            read_keyword(<<Ord("n"), Ord("u"), Ord("l"), Ord("l")>>, txt, t.pos, t.cursor))
    ELSE IF c = Ord("t")
    THEN Tokens_emit(t, "Boolean",
            read_keyword(<<Ord("t"), Ord("r"), Ord("u"), Ord("e")>>, txt, t.pos, t.cursor))
    ELSE IF c = Ord("f")
    THEN Tokens_emit(t, "Boolean",
            read_keyword(<<Ord("f"), Ord("a"), Ord("l"), Ord("s"), Ord("e")>>,
                         txt, t.pos, t.cursor))
    ELSE IF c = Ord("/") THEN Tokens_comment(txt, t)
    ELSE IF c \in {Ord(" "), Ord("\t"), Ord("\r")}
    THEN Tokens_next(txt, [t EXCEPT !.pos = t.pos + 1, !.cursor = advance(t.cursor, 1)])
    ELSE IF c = Ord("\n")
    THEN Tokens_next(txt, [t EXCEPT !.pos = t.pos + 1, !.cursor = advance_new_line(t.cursor)])
    ELSE [it |-> t, item |-> Err(UnexpectedCharacter(c, t.cursor))]

\* tokenize: the iterator driven to its end, collected into a Result.
RECURSIVE tokenize_from(_, _, _)
tokenize_from(txt, t, acc) ==
    LET Collect(n) ==
            IF n.item.kind = "None" THEN [ok |-> TRUE, tokens |-> acc]
            ELSE IF n.item.kind = "Err" THEN [ok |-> FALSE, error |-> n.item.error]
            ELSE tokenize_from(txt, n.it, Append(acc, n.item.token))
    IN  Collect(Tokens_next(txt, t))

tokenize(txt, md) == tokenize_from(txt, Tokens_new(md), <<>>)

\* No token is a comment: comments are treated like any other token.
IsComment_never(tok) == FALSE

IsComment(tok) == tok.kind = "LineComment" \/ tok.kind = "BlockComment"

-----------------------------------------------------------------------------
(* Parser: the token-level operations.  p is the Parser value (text, it,   *)
(* loc, tokens, peeked) with the history of what the iterator yielded;     *)
(* each operation returns the Parser after the call and what it returned.  *)

Parser_new(txt, md) ==
    [text |-> txt, it |-> Tokens_new(md), tokens |-> <<>>,
     loc |-> Location(1, 1, 0), peeked |-> None, log |-> <<>>]

Panic == [kind |-> "Panic"]

\* self.it.next()
it_next(p) ==
    LET Record(n) ==
            [p |-> [p EXCEPT !.it = n.it, !.log = Append(@, n.item)], r |-> n.item]
    IN  Record(Tokens_next(p.text, p.it))

\* A peeked token is returned without being taken out of the slot.
next_token_keeps_peeked(p) ==
    IF p.peeked # None THEN [p |-> p, r |-> Ok(p.peeked)] ELSE it_next(p)

next_token(p) ==
    IF p.peeked # None
    THEN [p |-> [p EXCEPT !.peeked = None], r |-> Ok(p.peeked)]
    ELSE it_next(p)

RECURSIVE peek_token(_)
peek_token(p) ==
    IF p.peeked # None THEN [p |-> p, r |-> Ok(p.peeked)]
    ELSE LET Match(n) ==
                 IF n.r.kind = "Ok" /\ IsComment(n.r.token)
                 THEN peek_token([n.p EXCEPT !.loc = n.r.token.loc.start,
                                             !.tokens = Append(@, n.r.token)])
                 ELSE IF n.r.kind = "Ok"
                 THEN [p |-> [n.p EXCEPT !.peeked = n.r.token], r |-> n.r]
                 ELSE n
         IN  Match(it_next(p))

maybe_match(p, kind) ==
    LET Match(pk) ==
            IF pk.r.kind = "Ok" /\ pk.r.token.kind = kind
            THEN [p |-> [next_token(pk.p).p EXCEPT !.loc = pk.r.token.loc.start,
                                                   !.tokens = Append(@, pk.r.token)],
                  r |-> pk.r]
            ELSE IF pk.r.kind = "Ok" THEN [p |-> pk.p, r |-> None]
            ELSE pk
    IN  Match(peek_token(p))

must_match(p, kind) ==
    LET Match(nt) ==
            IF nt.r.kind = "None"
            THEN [p |-> nt.p, r |-> Err(UnexpectedEndOfInput(nt.p.loc))]
            ELSE IF nt.r.kind = "Err"
            THEN [p |-> nt.p, r |-> Panic]          \* next_token_result.unwrap()
            ELSE IF nt.r.token.kind = kind
            THEN [p |-> [nt.p EXCEPT !.loc = nt.r.token.loc.start,
                                     !.tokens = Append(@, nt.r.token)],
                  r |-> nt.r]
            ELSE [p |-> nt.p,
                  r |-> Err(UnexpectedToken(nt.r.token.kind, nt.r.token.loc.start))]
    IN  Match(next_token(p))

-----------------------------------------------------------------------------
(* Text slicing and value materialization *)

\* str::len: the length of the characters s in bytes.
RECURSIVE str_len(_)
str_len(s) == IF s = <<>> THEN 0 ELSE len_utf8(Head(s)) + str_len(Tail(s))

\* The byte offset at which character i of txt starts (i = Len(txt) + 1: its end).
ByteStart(txt, i) == str_len(SubSeq(txt, 1, i - 1))

\* str::is_char_boundary
is_char_boundary(txt, b) == \E i \in 1..(Len(txt) + 1) : ByteStart(txt, i) = b

\* &self.text[start..end]: the characters between two byte offsets; indexing
\* panics when an offset is out of range or inside a character.
get_text(txt, start, end) ==
    IF start <= end /\ is_char_boundary(txt, start) /\ is_char_boundary(txt, end)
    THEN LET i == CHOOSE i \in 1..(Len(txt) + 1) : ByteStart(txt, i) = start
             j == CHOOSE j \in 1..(Len(txt) + 1) : ByteStart(txt, j) = end
         IN  [ok |-> TRUE, chars |-> SubSeq(txt, i, j - 1)]
    ELSE [ok |-> FALSE]

\* str::trim_matches('"'): every leading and every trailing quote removed.
RECURSIVE trim_start_quotes(_)
trim_start_quotes(s) ==
    IF s # <<>> /\ Head(s) = Ord("\"") THEN trim_start_quotes(Tail(s)) ELSE s

RECURSIVE trim_end_quotes(_)
trim_end_quotes(s) ==
    IF s # <<>> /\ s[Len(s)] = Ord("\"")
    THEN trim_end_quotes(SubSeq(s, 1, Len(s) - 1)) ELSE s

trim_matches_quote(s) == trim_end_quotes(trim_start_quotes(s))

\* the table escaped_chars of parse_string
escaped_chars(c) ==
    CASE c = Ord("\"") -> Ord("\"") [] c = Ord("\\") -> Ord("\\")
      [] c = Ord("/") -> Ord("/")   [] c = Ord("b") -> Ord("backspace")
      [] c = Ord("f") -> Ord("formfeed") [] c = Ord("n") -> Ord("\n")
      [] c = Ord("r") -> Ord("\r")  [] c = Ord("t") -> Ord("\t")
      [] OTHER -> NoChar

hex_value(c) ==
    IF IsAsciiDigit(c) THEN c - 48 ELSE IF c >= 97 THEN c - 87 ELSE c - 55

\* u32::from_str_radix(hex_sequence, 16) on four characters
from_str_radix16(h) ==
    IF \A i \in 1..Len(h) : is_ascii_hexdigit(h[i])
    THEN [ok |-> TRUE,
          value |-> ((hex_value(h[1]) * 16 + hex_value(h[2])) * 16
                        + hex_value(h[3])) * 16 + hex_value(h[4])]
    ELSE [ok |-> FALSE]

\* The while loop of parse_string over the trimmed characters s, value being
\* what is built so far.
RECURSIVE decode_string(_, _)
decode_string(s, value) ==
    IF s = <<>> THEN [ok |-> TRUE, value |-> value]
    ELSE IF Head(s) = Ord("\\")
    THEN IF Len(s) = 1 THEN [ok |-> TRUE, value |-> value]
         ELSE IF s[2] = Ord("u")
         THEN IF Len(s) < 6 THEN [ok |-> FALSE]     \* "Should never reach here."
              ELSE LET char_code == from_str_radix16(SubSeq(s, 3, 6)) IN
                   IF char_code.ok
                   THEN decode_string(SubSeq(s, 7, Len(s)),
                                      Append(value, char_code.value))
                   ELSE [ok |-> FALSE]
         ELSE decode_string(SubSeq(s, 3, Len(s)),
                            IF escaped_chars(s[2]) # NoChar
                            THEN Append(value, escaped_chars(s[2])) ELSE value)
    ELSE decode_string(Tail(s), Append(value, Head(s)))

\* The value of a run of ASCII digits, read in base ten.
RECURSIVE DigitsValue(_, _)
DigitsValue(s, acc) ==
    IF s = <<>> THEN acc ELSE DigitsValue(Tail(s), acc * 10 + (Head(s) - 48))

\* A decimal mantissa and exponent with the mantissa's trailing zeros moved
\* into the exponent: equal numbers get equal representations.
RECURSIVE NormalizeDecimal(_, _)
NormalizeDecimal(m, e) ==
    IF m = 0 THEN [mant |-> 0, exp |-> 0]
    ELSE IF m % 10 = 0 THEN NormalizeDecimal(m \div 10, e + 1)
    ELSE [mant |-> m, exp |-> e]

\* str::parse::<f64>: Sign? (Digit+ | Digit+ '.' Digit* | Digit* '.' Digit+) Exp?
\* with Exp ::= ('e' | 'E') Sign? Digit+ ; anything else is an Err.  (The
\* spellings inf, infinity and nan cannot be formed from the model's texts.)
f64_exponent(s, neg, a, b, c, d, f, g) ==
    IF /\ (b - a) + (d - c) >= 1
       /\ (f > d => g > f)
       /\ g = Len(s) + 1
    THEN [ok |-> TRUE, neg |-> neg,
          value |-> NormalizeDecimal(
                        DigitsValue(SubSeq(s, a, b - 1) \o SubSeq(s, c, d - 1), 0),
                        (IF PeekChar(s, d + 1) = Ord("-")
                         THEN 0 - DigitsValue(SubSeq(s, f, g - 1), 0)
                         ELSE DigitsValue(SubSeq(s, f, g - 1), 0)) - (d - c))]
    ELSE [ok |-> FALSE]

\* a..b-1 are the integer digits, c..d-1 the fraction digits
f64_fraction(s, neg, a, b, c, d) ==
    IF PeekChar(s, d) \in {Ord("e"), Ord("E")}
    THEN IF PeekChar(s, d + 1) \in {Ord("-"), Ord("+")}
         THEN f64_exponent(s, neg, a, b, c, d, d + 2, skip_digits(s, d + 2))
         ELSE f64_exponent(s, neg, a, b, c, d, d + 1, skip_digits(s, d + 1))
    ELSE f64_exponent(s, neg, a, b, c, d, d, d)

f64_mantissa(s, neg, a, b) ==
    IF PeekChar(s, b) = Ord(".")
    THEN f64_fraction(s, neg, a, b, b + 1, skip_digits(s, b + 1))
    ELSE f64_fraction(s, neg, a, b, b, b)

f64_from_str(s) ==
    IF s # <<>> /\ Head(s) \in {Ord("-"), Ord("+")}
    THEN f64_mantissa(s, Head(s) = Ord("-"), 2, skip_digits(s, 2))
    ELSE f64_mantissa(s, FALSE, 1, skip_digits(s, 1))

-----------------------------------------------------------------------------
(* AST nodes *)

Node(n) == [kind |-> "Node", node |-> n]

get_value_loc(value) == value.loc

\* A member located as its value is, the name left out.
member_loc_of_value(name, value) == get_value_loc(value)

\* loc: LocationRange { start: self.get_value_loc(&name).start,
\*                      end: self.get_value_loc(&value).end }
member_loc(name, value) ==
    LocationRange(get_value_loc(name).start, get_value_loc(value).end)

\* parse_boolean, parse_number, parse_null, parse_string: the token is matched,
\* its text sliced out of the input and decoded.
parse_boolean(p) ==
    LET Build(mm, txt) ==
            IF ~txt.ok THEN [p |-> mm.p, r |-> Panic]
            ELSE [p |-> mm.p,
                  r |-> Node([type |-> "Boolean",
                              value |-> (txt.chars = <<Ord("t"), Ord("r"), Ord("u"), Ord("e")>>),
                              loc |-> mm.r.token.loc])]
        Matched(mm) ==
            IF mm.r.kind # "Ok" THEN mm
            ELSE Build(mm, get_text(p.text, mm.r.token.loc.start.offset,
                                    mm.r.token.loc.end.offset))
    IN  Matched(must_match(p, "Boolean"))

parse_number(p) ==
    LET Value(mm, v) ==
            IF ~v.ok THEN [p |-> mm.p, r |-> Panic]         \* .unwrap()
            ELSE [p |-> mm.p,
                  r |-> Node([type |-> "Number",
                              value |-> [neg |-> v.neg, dec |-> v.value],
                              loc |-> mm.r.token.loc])]
        Build(mm, txt) ==
            IF ~txt.ok THEN [p |-> mm.p, r |-> Panic]
            ELSE Value(mm, f64_from_str(txt.chars))
        Matched(mm) ==
            IF mm.r.kind # "Ok" THEN mm
            ELSE Build(mm, get_text(p.text, mm.r.token.loc.start.offset,
                                    mm.r.token.loc.end.offset))
    IN  Matched(must_match(p, "Number"))

parse_null(p) ==
    LET Matched(mm) ==
            IF mm.r.kind # "Ok" THEN mm
            ELSE [p |-> mm.p, r |-> Node([type |-> "Null", loc |-> mm.r.token.loc])]
    IN  Matched(must_match(p, "Null"))

parse_string(p) ==
    LET Value(mm, d) ==
            IF ~d.ok THEN [p |-> mm.p, r |-> Panic]
            ELSE [p |-> mm.p,
                  r |-> Node([type |-> "String", value |-> d.value,
                              loc |-> mm.r.token.loc])]
        Build(mm, txt) ==
            IF ~txt.ok THEN [p |-> mm.p, r |-> Panic]
            ELSE Value(mm, decode_string(trim_matches_quote(txt.chars), <<>>))
        Matched(mm) ==
            IF mm.r.kind # "Ok" THEN mm
            ELSE Build(mm, get_text(p.text, mm.r.token.loc.start.offset,
                                    mm.r.token.loc.end.offset))
    IN  Matched(must_match(p, "String"))

\* Calculates the location at the end of the given text.
RECURSIVE get_end_location_from(_, _, _, _)
get_end_location_from(s, line, column, txt) ==
    IF s = <<>> THEN Location(line, column, str_len(txt))
    ELSE IF Head(s) = Ord("\n") \/ Head(s) = Ord("\r")
    THEN get_end_location_from(Tail(s), line + 1, 1, txt)
    ELSE get_end_location_from(Tail(s), line, column + 1, txt)

get_end_location(txt) == get_end_location_from(txt, 1, 1, txt)

-----------------------------------------------------------------------------
(* Inputs *)

\* The number of lexemes an input text is made of, at most.
MaxLexemes == 4

Chars(s) == [i \in 1..Len(s) |-> Ord(s[i])]

\* The pieces input texts are put together from: the punctuation, a number, a
\* string, a whole member, a block comment, a newline, and a 't' that starts
\* a keyword the next lexeme breaks off.
Lexemes ==
    { Chars(<<"[">>), Chars(<<"]">>), Chars(<<"{">>), Chars(<<"}">>),
      Chars(<<",">>), Chars(<<":">>), Chars(<<"1">>),
      Chars(<<"\"", "a", "\"">>),
      Chars(<<"\"", "a", "\"", ":", "1">>),
      Chars(<<"/", "*", "c", "*", "/">>),
      Chars(<<"\n">>), Chars(<<"t">>) }

RECURSIVE TextsUpTo(_)
TextsUpTo(n) ==
    IF n = 0 THEN {<<>>}
    ELSE LET shorter == TextsUpTo(n - 1) IN
         shorter \cup {t \o l : t \in shorter, l \in Lexemes}

Inputs == TextsUpTo(MaxLexemes)

\* The number of pieces the content of a string literal is made of, at most.
MaxPieces == 3

\* The pieces string contents are put together from: a letter, the escaped
\* quote, an escaped newline, the escaped backslash, a \u escape and a
\* character that takes two bytes in UTF-8.
StrPieces ==
    { Chars(<<"a">>), Chars(<<"\\", "\"">>), Chars(<<"\\", "n">>),
      Chars(<<"\\", "\\">>), Chars(<<"\\", "u", "0", "0", "e", "9">>),
      Chars(<<"e-acute">>) }

RECURSIVE ContentsUpTo(_)
ContentsUpTo(n) ==
    IF n = 0 THEN {<<>>}
    ELSE LET shorter == ContentsUpTo(n - 1) IN
         shorter \cup {t \o l : t \in shorter, l \in StrPieces}

StrLiterals == {Chars(<<"\"">>) \o c \o Chars(<<"\"">>) : c \in ContentsUpTo(MaxPieces)}

\* A string literal alone, as the element of an array, and as the name and
\* the value of an object's member.
StrInputs ==
    StrLiterals
        \cup {Chars(<<"[">>) \o l \o Chars(<<"]">>) : l \in StrLiterals}
        \cup {Chars(<<"{">>) \o l \o Chars(<<":">>) \o l \o Chars(<<"}">>) :
                  l \in StrLiterals}

\* The number of characters a number-like text is made of, at most.
MaxNumChars == 4

\* The characters number-like texts are made of; U+0663 is a decimal digit
\* that is not an ASCII digit.
NumChars ==
    {Ord("-"), Ord("0"), Ord("1"), Ord("."), Ord("e"), Ord("+"), Ord("arabic-3")}

RECURSIVE NumTextsUpTo(_)
NumTextsUpTo(n) ==
    IF n = 0 THEN {<<>>}
    ELSE LET shorter == NumTextsUpTo(n - 1) IN
         shorter \cup {Append(t, c) : t \in shorter, c \in NumChars}

\* The number of pieces a text with comments is made of, at most.
MaxCommentPieces == 4

\* The pieces texts with comments are put together from.
CommentPieces ==
    { Chars(<<"/", "*">>), Chars(<<"*", "/">>), Chars(<<"/", "/">>),
      Chars(<<"\n">>), Chars(<<"a">>), Chars(<<"1">>), Chars(<<"\"">>) }

RECURSIVE CommentTextsUpTo(_)
CommentTextsUpTo(n) ==
    IF n = 0 THEN {<<>>}
    ELSE LET shorter == CommentTextsUpTo(n - 1) IN
         shorter \cup {t \o l : t \in shorter, l \in CommentPieces}

\* A number-like text alone, as the element of an array and as the value of
\* an object's member; and the texts with comments.
LexInputs ==
    NumTextsUpTo(MaxNumChars)
        \cup {Chars(<<"[">>) \o n \o Chars(<<"]">>) : n \in NumTextsUpTo(MaxNumChars)}
        \cup {Chars(<<"{", "\"", "a", "\"", ":">>) \o n \o Chars(<<"}">>) :
                  n \in NumTextsUpTo(MaxNumChars)}
        \cup CommentTextsUpTo(MaxCommentPieces)

\* The number of pieces the content of a string with escapes is made of, at
\* most.
MaxEscPieces == 5

\* The pieces strings with escapes are put together from: the quote, the \u
\* of a Unicode escape, the backslash, a hexadecimal digit, a character that
\* is neither a hexadecimal digit nor the name of an escape, and a newline.
EscPieces ==
    { Chars(<<"\"">>), Chars(<<"\\", "u">>), Chars(<<"\\">>), Chars(<<"0">>),
      Chars(<<"x">>), Chars(<<"\n">>) }

RECURSIVE EscContentsUpTo(_)
EscContentsUpTo(n) ==
    IF n = 0 THEN {<<>>}
    ELSE LET shorter == EscContentsUpTo(n - 1) IN
         shorter \cup {t \o l : t \in shorter, l \in EscPieces}

\* An opening quote and what follows it.
EscInputs == {Chars(<<"\"">>) \o c : c \in EscContentsUpTo(MaxEscPieces)}

\* The number of characters that follow the start of a keyword, at most.
MaxKeywordTail == 2

\* The keywords and what the lexer reads them as.
Keywords ==
    { Chars(<<"n", "u", "l", "l">>), Chars(<<"t", "r", "u", "e">>),
      Chars(<<"f", "a", "l", "s", "e">>) }

\* The keywords and their beginnings.
KeywordPrefixes == UNION {{SubSeq(w, 1, n) : n \in 1..Len(w)} : w \in Keywords}

RECURSIVE KeywordTailsUpTo(_)
KeywordTailsUpTo(n) ==
    IF n = 0 THEN {<<>>}
    ELSE LET shorter == KeywordTailsUpTo(n - 1) IN
         shorter \cup {Append(t, c) : t \in shorter,
                           c \in {Ord("l"), Ord("e"), Ord("]"), Ord("}"), Ord(",")}}

\* A keyword or the beginning of one, at the start of the text, on a second
\* line, in an array or as the value of a member, and what follows it.
KeywordInputs ==
    {lead \o k \o t :
        lead \in {<<>>, Chars(<<"\n", " ">>), Chars(<<"[">>),
                  Chars(<<"{", "\"", "a", "\"", ":">>)},
        k \in KeywordPrefixes,
        t \in KeywordTailsUpTo(MaxKeywordTail)}

\* The strings with escapes and the keyword texts.
ErrInputs == EscInputs \cup KeywordInputs

\* The number of places of a document at which something is put in, at most.
MaxFillers == 2

\* Documents, each as the sequence of its lexemes (the first member of the
\* object of two in one piece: the object of one has it lexeme by lexeme).
BaseDocs ==
    { <<Chars(<<"1">>)>>,
      <<Chars(<<"[">>), Chars(<<"]">>)>>,
      <<Chars(<<"[">>), Chars(<<"1">>), Chars(<<"]">>)>>,
      <<Chars(<<"[">>), Chars(<<"1">>), Chars(<<",">>), Chars(<<"]">>)>>,
      <<Chars(<<"[">>), Chars(<<"1">>), Chars(<<",">>), Chars(<<"1">>), Chars(<<"]">>)>>,
      <<Chars(<<"{">>), Chars(<<"}">>)>>,
      <<Chars(<<"{">>), Chars(<<"\"", "a", "\"">>), Chars(<<":">>), Chars(<<"1">>),
        Chars(<<"}">>)>>,
      <<Chars(<<"{">>), Chars(<<"\"", "a", "\"">>), Chars(<<":">>), Chars(<<"[">>),
        Chars(<<"1">>), Chars(<<"]">>), Chars(<<"}">>)>>,
      <<Chars(<<"{">>), Chars(<<"\"", "a", "\"", ":", "1">>),
        Chars(<<",">>), Chars(<<"\"", "b", "\"">>), Chars(<<":">>), Chars(<<"1">>),
        Chars(<<"}">>)>> }

\* What is put in between two lexemes, before the first or after the last:
\* a line ending of each of the three sorts, a block comment, a line comment
\* with the newline that ends it.
Fillers ==
    { Chars(<<"\n">>), Chars(<<"\r", "\n">>), Chars(<<"\r">>),
      Chars(<<"/", "*", "c", "*", "/">>), Chars(<<"/", "/", "c", "\n">>) }

\* What follows the n-th lexeme of doc (n = 0: the whole text), with
\* something put in at k places at most: after the n-th lexeme or not, and
\* then further on.
RECURSIVE Filled(_, _, _)
Filled(doc, n, k) ==
    LET Rest(kk) ==
            IF n = Len(doc) THEN {<<>>}
            ELSE {doc[n + 1] \o t : t \in Filled(doc, n + 1, kk)}
    IN  Rest(k) \cup (IF k = 0 THEN {}
                      ELSE {f \o t : f \in Fillers, t \in Rest(k - 1)})

\* The documents with something put in at MaxFillers places at most.
DocInputs == UNION {Filled(doc, 0, MaxFillers) : doc \in BaseDocs}

Modes == {"Json", "Jsonc"}

-----------------------------------------------------------------------------
(* The parser as a state machine.  A frame of the stack is one activation  *)
(* of parse_array or parse_object with its local variables.                *)

P == [text |-> text, it |-> it, loc |-> loc, tokens |-> tokens,
      peeked |-> peeked, log |-> log]

SetParser(q) ==
    /\ it' = q.it
    /\ loc' = q.loc
    /\ tokens' = q.tokens
    /\ peeked' = q.peeked
    /\ log' = q.log

Frame(fn, start) ==
    [fn |-> fn, start |-> start, items |-> <<>>, comma_dangle |-> FALSE,
     name |-> None]

Top == stack[Len(stack)]
Pop == SubSeq(stack, 1, Len(stack) - 1)
SetTop(f) == [stack EXCEPT ![Len(stack)] = f]

\* parse() or a production returns r, an error or a panic: the whole call ends.
Fail(q, r) ==
    /\ SetParser(q)
    /\ result' = r
    /\ pc' = "done"
    /\ UNCHANGED <<stack, body>>

\* parse_value returns node to its caller: parse(), or the loop body of the
\* parse_array / parse_object activation on top of stk.
Deliver(q, node, stk) ==
    /\ SetParser(q)
    /\ UNCHANGED result
    /\ IF stk = <<>>
       THEN /\ body' = node
            /\ stack' = stk
            /\ pc' = "parse_tail"
       ELSE LET f == stk[Len(stk)] IN
            /\ body' = body
            /\ IF f.fn = "parse_array"
               THEN /\ stack' = [stk EXCEPT ![Len(stk)].items =
                                   Append(@, [type |-> "Element", value |-> node,
                                              loc |-> get_value_loc(node)])]
                    /\ pc' = "array_after"
               ELSE /\ stack' = [stk EXCEPT
                                   ![Len(stk)].items =
                                       Append(@, [type |-> "Member", name |-> f.name,
                                                  value |-> node,
                                                  loc |-> member_loc(f.name, node)]),
                                   ![Len(stk)].name = None]
                    /\ pc' = "object_after"

\* Parser::new on one of the given texts, in either mode, with either setting.
Start(texts) ==
    /\ text \in texts
    /\ \E md \in Modes : it = Tokens_new(md)
    /\ allow_trailing_commas \in BOOLEAN
    /\ loc = Location(1, 1, 0)
    /\ tokens = <<>>
    /\ peeked = None
    /\ log = <<>>
    /\ stack = <<>>
    /\ pc = "parse_value"
    /\ body = None
    /\ result = None

Init == Start(Inputs)

InitStr == Start(StrInputs)

InitLex == Start(LexInputs)

InitErr == Start(ErrInputs)

InitDoc == Start(DocInputs)

\* parse_value, up to the point where it has a scalar or has entered
\* parse_array / parse_object and matched the opening delimiter.
ParseValue ==
    /\ pc = "parse_value"
    /\ UNCHANGED <<text, allow_trailing_commas>>
    /\ LET Enter(k, mm) ==
               /\ SetParser(mm.p)
               /\ stack' = Append(stack,
                      Frame(IF k = "LBrace" THEN "parse_object" ELSE "parse_array",
                            mm.r.token.loc.start))
               /\ pc' = IF k = "LBrace" THEN "object_loop" ELSE "array_loop"
               /\ UNCHANGED <<body, result>>
           Scalar(sc) ==
               IF sc.r.kind = "Node" THEN Deliver(sc.p, sc.r.node, stack)
               ELSE Fail(sc.p, sc.r)
           Match(pk) ==
               IF pk.r.kind = "None"
               THEN Fail(pk.p, Err(UnexpectedEndOfInput(pk.p.loc)))
               ELSE IF pk.r.kind = "Err" THEN Fail(pk.p, pk.r)
               ELSE IF pk.r.token.kind \in {"LBrace", "LBracket"}
               THEN Enter(pk.r.token.kind, must_match(pk.p, pk.r.token.kind))
               ELSE IF pk.r.token.kind = "Boolean" THEN Scalar(parse_boolean(pk.p))
               ELSE IF pk.r.token.kind = "Number" THEN Scalar(parse_number(pk.p))
               ELSE IF pk.r.token.kind = "Null" THEN Scalar(parse_null(pk.p))
               ELSE IF pk.r.token.kind = "String" THEN Scalar(parse_string(pk.p))
               ELSE Fail(pk.p, Panic)               \* panic!("Not implemented")
       IN  Match(peek_token(P))

\* comma_dangle = self.maybe_match(TokenKind::Comma).is_some()
is_some(r) == r.kind # "None"

\* The loop head without its first arm: a comma is taken for an item.
comma_taken_for_item(token) == FALSE

\* Ok(token) if token.kind == TokenKind::Comma
comma_where_item_expected(token) == token.kind = "Comma"

\* The check of the closing delimiter with the setting read the other way round.
dangle_rejected_when_allowed(comma_dangle, allow) == comma_dangle /\ allow

\* if comma_dangle && !self.options.allow_trailing_commas { return Err(..) }
dangle_rejected(comma_dangle, allow) == comma_dangle /\ ~allow

\* The loop is left after an item without a comma when trailing commas are
\* allowed, and not left when they are not.
breaks_after_item_when_allowed(comma_dangle, allow) == ~comma_dangle /\ allow

\* if !comma_dangle && !self.options.allow_trailing_commas { break; }
breaks_after_item(comma_dangle, allow) == ~comma_dangle /\ ~allow

\* The head of the item loop of parse_array / parse_object: the peek and the
\* match on it.  close is the closing delimiter's kind.
LoopHead(close, close_pc, item_pc) ==
    LET Name(name) ==
            IF name.r.kind = "Node"
            THEN /\ SetParser(name.p)
                 /\ stack' = SetTop([Top EXCEPT !.name = name.r.node])
                 /\ pc' = "object_colon"
                 /\ UNCHANGED <<body, result>>
            ELSE Fail(name.p, name.r)
        Goto(q, target) ==
            /\ SetParser(q)
            /\ pc' = target
            /\ UNCHANGED <<stack, body, result>>
        Match(pk) ==
            IF pk.r.kind = "None" THEN Goto(pk.p, close_pc)
            ELSE IF pk.r.kind = "Err" THEN Fail(pk.p, pk.r)
            ELSE IF comma_where_item_expected(pk.r.token)
            THEN Fail(pk.p, Err(UnexpectedToken(pk.r.token.kind, pk.r.token.loc.start)))
            ELSE IF pk.r.token.kind = close
            THEN IF dangle_rejected(Top.comma_dangle, allow_trailing_commas)
                 THEN Fail(pk.p, Err(UnexpectedToken(pk.r.token.kind,
                                                     pk.r.token.loc.start)))
                 ELSE Goto(pk.p, close_pc)
            ELSE IF item_pc = "parse_value" THEN Goto(pk.p, "parse_value")
            ELSE Name(parse_string(pk.p))                  \* name: value
    IN  Match(peek_token(P))

\* After an item: the optional comma and the decision to go round again.
LoopAfter(loop_pc, close_pc) ==
    LET Decide(q, comma_dangle) ==
            /\ SetParser(q)
            /\ stack' = SetTop([Top EXCEPT !.comma_dangle = comma_dangle])
            /\ pc' = IF breaks_after_item(comma_dangle, allow_trailing_commas)
                     THEN close_pc ELSE loop_pc
            /\ UNCHANGED <<body, result>>
        Match(mm) == Decide(mm.p, is_some(mm.r))
    IN  Match(maybe_match(P, "Comma"))

\* "now there must be a right bracket": the node is built and returned.
LoopClose(close, type) ==
    LET Match(mm) ==
            IF mm.r.kind = "Ok"
            THEN Deliver(mm.p,
                         IF type = "Array"
                         THEN [type |-> "Array", elements |-> Top.items,
                               loc |-> LocationRange(Top.start, mm.r.token.loc.end)]
                         ELSE [type |-> "Object", members |-> Top.items,
                               loc |-> LocationRange(Top.start, mm.r.token.loc.end)],
                         Pop)
            ELSE Fail(mm.p, mm.r)
    IN  Match(must_match(P, close))

ArrayLoop ==
    /\ pc = "array_loop"
    /\ UNCHANGED <<text, allow_trailing_commas>>
    /\ LoopHead("RBracket", "array_close", "parse_value")

ArrayAfter ==
    /\ pc = "array_after"
    /\ UNCHANGED <<text, allow_trailing_commas>>
    /\ LoopAfter("array_loop", "array_close")

ArrayClose ==
    /\ pc = "array_close"
    /\ UNCHANGED <<text, allow_trailing_commas>>
    /\ LoopClose("RBracket", "Array")

ObjectLoop ==
    /\ pc = "object_loop"
    /\ UNCHANGED <<text, allow_trailing_commas>>
    /\ LoopHead("RBrace", "object_close", "object_colon")

ObjectColon ==
    /\ pc = "object_colon"
    /\ UNCHANGED <<text, allow_trailing_commas>>
    /\ LET Match(mm) ==
               IF mm.r.kind = "Ok"
               THEN /\ SetParser(mm.p)
                    /\ pc' = "parse_value"
                    /\ UNCHANGED <<stack, body, result>>
               ELSE Fail(mm.p, mm.r)
       IN  Match(must_match(P, "Colon"))

ObjectAfter ==
    /\ pc = "object_after"
    /\ UNCHANGED <<text, allow_trailing_commas>>
    /\ LoopAfter("object_loop", "object_close")

ObjectClose ==
    /\ pc = "object_close"
    /\ UNCHANGED <<text, allow_trailing_commas>>
    /\ LoopClose("RBrace", "Object")

\* A Document whose loc is the span of its body.
Document_with_body_loc(b, toks, txt) ==
    [type |-> "Document", body |-> b, loc |-> get_value_loc(b), tokens |-> toks]

Document(b, toks, txt) ==
    [type |-> "Document", body |-> b,
     loc |-> LocationRange(Location(1, 1, 0), get_end_location(txt)),
     tokens |-> toks]

Doc(d) == [kind |-> "Doc", doc |-> d]

\* parse(), after the body: one round of "while let Some(..) = self.next_token()".
ParseTail ==
    /\ pc = "parse_tail"
    /\ UNCHANGED <<text, allow_trailing_commas>>
    /\ LET Match(nt) ==
               IF nt.r.kind = "None"
               THEN /\ SetParser(nt.p)
                    /\ result' = Doc(Document(body, nt.p.tokens, text))
                    /\ pc' = "done"
                    /\ UNCHANGED <<stack, body>>
               ELSE IF nt.r.kind = "Err" THEN Fail(nt.p, nt.r)
               ELSE IF IsComment(nt.r.token)
               THEN /\ SetParser(nt.p)
                    /\ UNCHANGED <<stack, pc, body, result>>
               ELSE Fail(nt.p, Err(UnexpectedToken(nt.r.token.kind,
                                                   nt.r.token.loc.start)))
       IN  Match(next_token(P))

Next ==
    \/ ParseValue
    \/ ArrayLoop
    \/ ArrayAfter
    \/ ArrayClose
    \/ ObjectLoop
    \/ ObjectColon
    \/ ObjectAfter
    \/ ObjectClose
    \/ ParseTail

Spec == Init /\ [][Next]_vars

\* The same parser on string literals.
SpecStr == InitStr /\ [][Next]_vars

\* The same parser on number-like texts and on texts with comments.
SpecLex == InitLex /\ [][Next]_vars

\* The same parser on strings with escapes and on keyword texts.
SpecErr == InitErr /\ [][Next]_vars

\* The same parser on documents with line endings and comments put in.
SpecDoc == InitDoc /\ [][Next]_vars

-----------------------------------------------------------------------------
(* parse as a function of the text, the mode and the option: what the      *)
(* calls of parse_value, parse_array and parse_object return, each with    *)
(* the Parser after the call.                                              *)

\* The kind of the delimiter that closes what parse_array / parse_object reads.
closing(fn) == IF fn = "parse_array" THEN "RBracket" ELSE "RBrace"

RECURSIVE parse_value(_, _)
RECURSIVE parse_items(_, _, _, _, _, _)

\* "now there must be a right bracket": the end of parse_array / parse_object.
parse_close(p, fn, start, items) ==
    LET Match(mm) ==
            IF mm.r.kind # "Ok" THEN mm
            ELSE [p |-> mm.p,
                  r |-> Node(IF fn = "parse_array"
                             THEN [type |-> "Array", elements |-> items,
                                   loc |-> LocationRange(start, mm.r.token.loc.end)]
                             ELSE [type |-> "Object", members |-> items,
                                   loc |-> LocationRange(start, mm.r.token.loc.end)])]
    IN  Match(must_match(p, closing(fn)))

\* The Ok(_) arm of the loop of parse_array: the value, wrapped in an Element.
parse_element(p, allow) ==
    LET Wrap(v) ==
            IF v.r.kind # "Node" THEN v
            ELSE [p |-> v.p,
                  r |-> Node([type |-> "Element", value |-> v.r.node,
                              loc |-> get_value_loc(v.r.node)])]
    IN  Wrap(parse_value(p, allow))

\* The Ok(_) arm of the loop of parse_object: name: value.
parse_member(p, allow) ==
    LET Wrap(name, v) ==
            IF v.r.kind # "Node" THEN v
            ELSE [p |-> v.p,
                  r |-> Node([type |-> "Member", name |-> name, value |-> v.r.node,
                              loc |-> member_loc(name, v.r.node)])]
        Colon(name, mm) ==
            IF mm.r.kind # "Ok" THEN mm ELSE Wrap(name, parse_value(mm.p, allow))
        Name(name) ==
            IF name.r.kind # "Node" THEN name
            ELSE Colon(name.r.node, must_match(name.p, "Colon"))
    IN  Name(parse_string(p))

\* The loop of parse_array / parse_object from its head on, items being the
\* elements or members read so far.
parse_items(p, fn, start, items, comma_dangle, allow) ==
    LET After(item, mm) ==
            IF breaks_after_item(is_some(mm.r), allow)
            THEN parse_close(mm.p, fn, start, Append(items, item))
            ELSE parse_items(mm.p, fn, start, Append(items, item), is_some(mm.r), allow)
        Item(v) ==
            IF v.r.kind # "Node" THEN v
            ELSE After(v.r.node, maybe_match(v.p, "Comma"))
        Match(pk) ==
            IF pk.r.kind = "None" THEN parse_close(pk.p, fn, start, items)
            ELSE IF pk.r.kind = "Err" THEN pk
            ELSE IF comma_where_item_expected(pk.r.token)
            THEN [p |-> pk.p,
                  r |-> Err(UnexpectedToken(pk.r.token.kind, pk.r.token.loc.start))]
            ELSE IF pk.r.token.kind = closing(fn)
            THEN IF dangle_rejected(comma_dangle, allow)
                 THEN [p |-> pk.p,
                       r |-> Err(UnexpectedToken(pk.r.token.kind, pk.r.token.loc.start))]
                 ELSE parse_close(pk.p, fn, start, items)
            ELSE IF fn = "parse_array" THEN Item(parse_element(pk.p, allow))
            ELSE Item(parse_member(pk.p, allow))
    IN  Match(peek_token(p))

parse_array(p, allow) ==
    LET Open(mm) ==
            IF mm.r.kind # "Ok" THEN mm
            ELSE parse_items(mm.p, "parse_array", mm.r.token.loc.start, <<>>, FALSE, allow)
    IN  Open(must_match(p, "LBracket"))

parse_object(p, allow) ==
    LET Open(mm) ==
            IF mm.r.kind # "Ok" THEN mm
            ELSE parse_items(mm.p, "parse_object", mm.r.token.loc.start, <<>>, FALSE, allow)
    IN  Open(must_match(p, "LBrace"))

parse_value(p, allow) ==
    LET Match(pk) ==
            IF pk.r.kind = "None"
            THEN [p |-> pk.p, r |-> Err(UnexpectedEndOfInput(pk.p.loc))]
            ELSE IF pk.r.kind = "Err" THEN pk
            ELSE IF pk.r.token.kind = "LBrace" THEN parse_object(pk.p, allow)
            ELSE IF pk.r.token.kind = "LBracket" THEN parse_array(pk.p, allow)
            ELSE IF pk.r.token.kind = "Boolean" THEN parse_boolean(pk.p)
            ELSE IF pk.r.token.kind = "Number" THEN parse_number(pk.p)
            ELSE IF pk.r.token.kind = "Null" THEN parse_null(pk.p)
            ELSE IF pk.r.token.kind = "String" THEN parse_string(pk.p)
            ELSE [p |-> pk.p, r |-> Panic]              \* panic!("Not implemented")
    IN  Match(peek_token(p))

\* Parser::parse after the body: the loop over what follows it, and the
\* Document.
RECURSIVE parse_after_body(_, _)
parse_after_body(p, b) ==
    LET Match(nt) ==
            IF nt.r.kind = "None" THEN Doc(Document(b, nt.p.tokens, p.text))
            ELSE IF nt.r.kind = "Err" THEN nt.r
            ELSE IF IsComment(nt.r.token) THEN parse_after_body(nt.p, b)
            ELSE Err(UnexpectedToken(nt.r.token.kind, nt.r.token.loc.start))
    IN  Match(next_token(p))

\* parse(text, mode, options): a Document, an error, or a panic.
parse(txt, md, allow) ==
    LET Body(v) ==
            IF v.r.kind # "Node" THEN v.r ELSE parse_after_body(v.p, v.r.node)
    IN  Body(parse_value(Parser_new(txt, md), allow))

-----------------------------------------------------------------------------
(* Properties *)

\* The tokens of toks that are not comments.
Significant(toks) ==
    SelectSeq(toks, LAMBDA t : t.kind \notin {"LineComment", "BlockComment"})

Last(q) == q[Len(q)]

\* C1: for every input, in both modes and under both trailing-comma
\* settings, parse ends by returning a Document or a MomoaError as a value;
\* no input makes it abort with a panic.
C1_ParseNeverPanics == result # Panic

\* C2: once the lexer has yielded an error the parser pulls nothing further
\* from it (the error is the last thing the lexer was asked for), and the
\* value parse returns is exactly that error.
C2_LexerErrorIsFinal ==
    \A i \in 1..Len(log) :
        log[i].kind = "Err" =>
            /\ i = Len(log)
            /\ (pc = "done" /\ result # Panic) => result = log[i]

\* C3: under both values of allow_trailing_commas, whenever parse_array or
\* parse_object goes on to a further element or member after one it already
\* holds, a ',' was matched between the two.
C3_ItemsSeparatedByComma ==
    (/\ stack # <<>>
     /\ Top.items # <<>>
     /\ \/ pc = "parse_value" /\ Top.fn = "parse_array"
        \/ pc = "object_colon")
        => Top.comma_dangle

\* C4: on every successful parse Document.tokens is exactly the sequence
\* tokenize returns for the same text in the same mode, the comments before,
\* inside and after the body included.
C4_DocumentTokensAreAllTokens ==
    result.kind = "Doc" =>
        /\ tokenize(text, it.mode).ok
        /\ result.doc.tokens = tokenize(text, it.mode).tokens

\* C5: Location.offset is a byte offset.  As long as the lexer has yielded
\* no error, the token it yielded last ends where the lexer stands, so the
\* input sliced by bytes from the token's start offset to its end offset is
\* the characters just read, and the end offset is the number of bytes read
\* so far; this holds with multi-byte characters in the input as well.
C5_OffsetsAreByteOffsets ==
    (/\ log # <<>>
     /\ Last(log).kind = "Ok"
     /\ \A i \in 1..Len(log) : log[i].kind # "Err") =>
        LET loc_ == Last(log).token.loc
            Lexeme(slice) ==
                /\ slice.ok
                /\ slice.chars = SubSeq(text, it.pos - Len(slice.chars), it.pos - 1)
        IN  /\ loc_.end.offset = ByteStart(text, it.pos)
            /\ Lexeme(get_text(text, loc_.start.offset, loc_.end.offset))

\* What a string's content denotes: every escape sequence replaced by its
\* character, every other character kept.
RECURSIVE Unescape(_)
Unescape(s) ==
    IF s = <<>> THEN <<>>
    ELSE IF Head(s) # Ord("\\") THEN <<Head(s)>> \o Unescape(Tail(s))
    ELSE IF s[2] = Ord("u")
    THEN <<from_str_radix16(SubSeq(s, 3, 6)).value>> \o Unescape(SubSeq(s, 7, Len(s)))
    ELSE <<escaped_chars(s[2])>> \o Unescape(SubSeq(s, 3, Len(s)))

\* C6: the value parse_string builds is the lexeme without its one opening
\* and its one closing quote, escapes decoded; checked on the inputs that
\* are one string literal, whose lexeme is the whole text.
C6_StringValueIsUnescapedContent ==
    (result.kind = "Doc" /\ result.doc.body.type = "String") =>
        result.doc.body.value = Unescape(SubSeq(text, 2, Len(text) - 1))

Closer(f) == IF f.fn = "parse_array" THEN "RBracket" ELSE "RBrace"

\* The node parse_value has just returned, to parse() or to a loop body.
Returned == IF stack = <<>> THEN body ELSE Last(Top.items).value

ItemsOf(node) == IF node.type = "Array" THEN node.elements ELSE node.members

\* The parse has ended at the closing delimiter of the innermost array or
\* object, the token before it being a ','.
FailedAtCloseAfterComma ==
    /\ pc = "done"
    /\ stack # <<>>
    /\ peeked # None
    /\ peeked.kind = Closer(Top)
    /\ Significant(tokens) # <<>>
    /\ Last(Significant(tokens)).kind = "Comma"

\* An array or object has just been built whose closing delimiter was
\* matched directly after a ','.
BuiltWithCommaBeforeClose ==
    /\ pc \in {"parse_tail", "array_after", "object_after"}
    /\ Len(Significant(tokens)) >= 3
    /\ Last(Significant(tokens)).kind \in {"RBracket", "RBrace"}
    /\ Significant(tokens)[Len(Significant(tokens)) - 1].kind = "Comma"

\* C8: a ',' directly followed by the closing delimiter of its array or
\* object.  Without trailing commas parse fails there, with UnexpectedToken
\* of the delimiter's kind at the delimiter's start, and no container is
\* built; with them parse does not fail there, the container is built, and
\* its last item is the one that ends before that comma.
C8_CommaBeforeClose ==
    /\ FailedAtCloseAfterComma =>
           /\ ~allow_trailing_commas
           /\ result = Err(UnexpectedToken(peeked.kind, peeked.loc.start))
    /\ BuiltWithCommaBeforeClose =>
           /\ allow_trailing_commas
           /\ Returned.type = (IF Last(Significant(tokens)).kind = "RBracket"
                               THEN "Array" ELSE "Object")
           /\ ItemsOf(Returned) # <<>>
           /\ Last(ItemsOf(Returned)).loc.end =
                  Significant(tokens)[Len(Significant(tokens)) - 2].loc.end

\* C8 witness: trailing commas not being allowed, the parse has failed at
\* the closing delimiter that follows the comma after an item.
C8_RejectedAtClose ==
    /\ ~allow_trailing_commas
    /\ FailedAtCloseAfterComma
    /\ Top.items # <<>>

\* C9: a ',' directly after '[', '{' or another ',' of an array or object
\* makes parse fail with UnexpectedToken of kind Comma at the comma's line
\* and column, under both trailing-comma settings and in both modes.
C9_CommaWhereItemExpected ==
    (/\ pc = "done"
     /\ stack # <<>>
     /\ peeked # None
     /\ peeked.kind = "Comma"
     /\ Significant(tokens) # <<>>
     /\ Last(Significant(tokens)).kind \in {"LBracket", "LBrace", "Comma"})
        => result = Err(UnexpectedToken("Comma", peeked.loc.start))

\* C9 witness: the parse has ended at a second comma in a row, with trailing
\* commas allowed.
C9_CommaAfterComma ==
    /\ pc = "done"
    /\ allow_trailing_commas
    /\ stack # <<>>
    /\ peeked # None
    /\ peeked.kind = "Comma"
    /\ Significant(tokens) # <<>>
    /\ Last(Significant(tokens)).kind = "Comma"

\* C10: once the body is parsed, parse ends in one of three ways: at a token
\* that is not a comment, with UnexpectedToken of its kind at its start; at
\* a lexer error, with that error; at the end of the input, with the
\* Document, however many comments came in between.
C10_OnlyCommentsAfterBody ==
    (pc = "done" /\ body # None /\ log # <<>>) =>
        CASE Last(log).kind = "Ok" ->
                 /\ Last(log).token.kind \notin {"LineComment", "BlockComment"}
                 /\ result = Err(UnexpectedToken(Last(log).token.kind,
                                                 Last(log).token.loc.start))
          [] Last(log).kind = "Err" -> result = Last(log)
          [] Last(log).kind = "None" -> result.kind = "Doc"

\* C10 witness: parse has failed at a token that follows the body and a
\* comment after the body.
C10_TokenAfterComment ==
    /\ pc = "done"
    /\ body # None
    /\ result.kind = "Err"
    /\ result.error.type = "UnexpectedToken"
    /\ Len(log) >= 3
    /\ log[Len(log) - 1].kind = "Ok"
    /\ log[Len(log) - 1].token.kind = "BlockComment"
    /\ log[Len(log) - 2].kind = "Ok"
    /\ log[Len(log) - 2].token.loc = body.loc

\* The lexer has yielded no error so far.
NoLexerError == \A i \in 1..Len(log) : log[i].kind # "Err"

\* The lexer has yielded no error and the last thing it yielded is a token
\* of the given kind.
LastTokenIs(kind) ==
    /\ log # <<>>
    /\ NoLexerError
    /\ Last(log).kind = "Ok"
    /\ Last(log).token.kind = kind

\* The characters of the token the lexer yielded last: the lexer stands
\* right after them, and the token's offsets differ by their number.
LastLexeme ==
    SubSeq(text,
           it.pos - (Last(log).token.loc.end.offset - Last(log).token.loc.start.offset),
           it.pos - 1)

\* C11: every lexeme read_number accepts as a Number token is made only of
\* ASCII digits, '-', '.', 'e', 'E' and '+', is text the conversion to f64
\* accepts, and parse_number does not panic on it.
C11_NumberLexemeConverts ==
    LastTokenIs("Number") =>
        /\ \A i \in 1..Len(LastLexeme) :
               \/ IsAsciiDigit(LastLexeme[i])
               \/ LastLexeme[i] \in {Ord("-"), Ord("."), Ord("e"), Ord("E"), Ord("+")}
        /\ f64_from_str(LastLexeme).ok
        /\ result # Panic

\* C12: no Number token is produced whose lexeme contains a '.' that is not
\* immediately followed by a decimal digit.
C12_DotFollowedByDigit ==
    LastTokenIs("Number") =>
        \A i \in 1..Len(LastLexeme) :
            LastLexeme[i] = Ord(".") =>
                i < Len(LastLexeme) /\ IsAsciiDigit(LastLexeme[i + 1])

\* The text has, from character i on, an optional '-', a '0' and a further
\* decimal digit.
ZeroThenDigitAt(i) ==
    \/ PeekChar(text, i) = Ord("0") /\ IsAsciiDigit(PeekChar(text, i + 1))
    \/ /\ PeekChar(text, i) = Ord("-")
       /\ PeekChar(text, i + 1) = Ord("0")
       /\ IsAsciiDigit(PeekChar(text, i + 2))

\* The second digit of the number that starts at character i.
SecondDigitAt(i) == IF PeekChar(text, i) = Ord("-") THEN i + 2 ELSE i + 1

\* C14: a number that starts with '0', or with '-' and '0', and goes on with
\* another digit is rejected with UnexpectedCharacter carrying that digit at
\* that digit's column, and no Number token is produced for it; checked for
\* a number at the start of the text and for one right after a '['.
C14_LeadingZeroRejected ==
    /\ (ZeroThenDigitAt(1) /\ Len(log) >= 1) =>
           log[1] = Err(UnexpectedCharacter(text[SecondDigitAt(1)],
                                            Location(1, SecondDigitAt(1), 0)))
    /\ (PeekChar(text, 1) = Ord("[") /\ ZeroThenDigitAt(2) /\ Len(log) >= 2) =>
           log[2] = Err(UnexpectedCharacter(text[SecondDigitAt(2)],
                                            Location(1, SecondDigitAt(2), 0)))

\* C14 witness: the lexer has been asked for the token after a '[' that is
\* followed by '-', '0' and a digit.
C14_MinusZeroDigitInArray ==
    /\ PeekChar(text, 1) = Ord("[")
    /\ PeekChar(text, 2) = Ord("-")
    /\ ZeroThenDigitAt(2)
    /\ Len(log) >= 2

\* The text starts with a number, and the error the lexer has just yielded
\* for it is the first thing it yielded.
NumberFailedAtStart ==
    /\ text # <<>>
    /\ (IsAsciiDigit(text[1]) \/ text[1] = Ord("-"))
    /\ Len(log) = 1
    /\ log[1].kind = "Err"

\* C17: when read_number fails with the input not exhausted, the error is
\* UnexpectedCharacter carrying the character it stopped at, at that
\* character's position; it is UnexpectedEndOfInput only when the input is
\* exhausted.
C17_WrongCharacterIsReported ==
    NumberFailedAtStart =>
        IF it.pos > Len(text)
        THEN log[1].error.type = "UnexpectedEndOfInput"
        ELSE log[1] = Err(UnexpectedCharacter(text[it.pos], Location(1, it.pos, 0)))

\* C13: a valid JSON scalar alone as the input parses to a Document whose
\* body spans line 1 from column 1, offset 0 to column len + 1, offset len,
\* len being the byte length of the input, and whose value is the decoded
\* scalar; checked on the string literals.
C13_ScalarAlone ==
    (pc = "done" /\ text # <<>> /\ text[1] = Ord("\"")) =>
        /\ result.kind = "Doc"
        /\ result.doc.body.type = "String"
        /\ result.doc.body.loc =
               LocationRange(Location(1, 1, 0),
                             Location(1, str_len(text) + 1, str_len(text)))
        /\ result.doc.body.value = Unescape(SubSeq(text, 2, Len(text) - 1))

\* The newlines of the text before character i.
NewlinesBefore(i) == {j \in 1..(i - 1) : text[j] = Ord("\n")}

\* The line and the column of character i of the text.
LineOf(i) == 1 + Cardinality(NewlinesBefore(i))

ColumnOf(i) ==
    IF NewlinesBefore(i) = {} THEN i
    ELSE i - (CHOOSE j \in NewlinesBefore(i) : \A k \in NewlinesBefore(i) : k <= j)

\* The first character from i on that is not whitespace (Len(text) + 1: none).
RECURSIVE SkipWhitespace(_)
SkipWhitespace(i) ==
    IF PeekChar(text, i) \in {Ord(" "), Ord("\t"), Ord("\r"), Ord("\n")}
    THEN SkipWhitespace(i + 1) ELSE i

\* The lexer is about to be asked for a token, and the first character that
\* is not whitespace is character i, a '/'.
SlashIsNext(i) ==
    /\ pc # "done"
    /\ peeked = None
    /\ NoLexerError
    /\ i = SkipWhitespace(it.pos)
    /\ PeekChar(text, i) = Ord("/")

\* In JSON mode a step that meets a '/' where a token starts gets
\* UnexpectedCharacter('/') at that character's line and column.
SlashRejectedInJson ==
    \A i \in 1..Len(text) :
        (it.mode = "Json" /\ SlashIsNext(i)) =>
            log' = Append(log, Err(UnexpectedCharacter(Ord("/"),
                                       Location(LineOf(i), ColumnOf(i), 0))))

\* In JSONC mode a line comment is the characters from its "//" up to the
\* next newline or the end of the input, and a token that starts right
\* after that newline starts at column 1 of the next line.
LineCommentToEndOfLine ==
    /\ LastTokenIs("LineComment") =>
           LET start == Last(log).token.loc.start
               first == start.offset + 1
           IN  /\ it.mode = "Jsonc"
               /\ SubSeq(text, first, first + 1) = <<Ord("/"), Ord("/")>>
               /\ \A j \in first..(it.pos - 1) : text[j] # Ord("\n")
               /\ PeekChar(text, it.pos) \in {NoChar, Ord("\n")}
               /\ Last(log).token.loc.end = advance(start, it.pos - first)
    /\ \A i \in 1..(Len(log) - 1) :
           (/\ NoLexerError
            /\ log[i].token.kind = "LineComment"
            /\ log[i + 1].kind = "Ok"
            /\ log[i + 1].token.loc.start.offset = log[i].token.loc.end.offset + 1)
               => /\ log[i + 1].token.loc.start.line = log[i].token.loc.end.line + 1
                  /\ log[i + 1].token.loc.start.column = 1

\* C15: in JSON mode the lexer never produces a comment token, and a '/'
\* where a token starts yields UnexpectedCharacter('/') at its line and
\* column; in JSONC mode "//" up to, not including, the next newline is one
\* LineComment token and the token after the newline starts at column 1 of
\* the next line.
C15_LineComments ==
    /\ [](it.mode = "Json" =>
            \A i \in 1..Len(log) :
                log[i].kind = "Ok" =>
                    log[i].token.kind \notin {"LineComment", "BlockComment"})
    /\ [][SlashRejectedInJson]_vars
    /\ []LineCommentToEndOfLine

\* The text has a '/' outside the string literals, from character i on,
\* in_string telling whether character i is inside one.
RECURSIVE SlashOutsideString(_, _)
SlashOutsideString(i, in_string) ==
    IF i > Len(text) THEN FALSE
    ELSE IF in_string
    THEN IF text[i] = Ord("\\") THEN SlashOutsideString(i + 2, TRUE)
         ELSE SlashOutsideString(i + 1, text[i] # Ord("\""))
    ELSE IF text[i] = Ord("/") THEN TRUE
    ELSE SlashOutsideString(i + 1, text[i] = Ord("\""))

\* What the lexer yields next and where it stands then, the mode apart.
NextInMode(md) ==
    LET Strip(n) == [item |-> n.item, pos |-> n.it.pos, cursor |-> n.it.cursor]
    IN  Strip(Tokens_next(text, [it EXCEPT !.mode = md]))

\* C16: for a text with no '/' outside its string literals the mode changes
\* nothing: json::tokenize and jsonc::tokenize return the same result, and
\* wherever the parser stands, the lexer yields the same thing next and
\* moves to the same place in either mode, so that the two parses, which
\* read the mode nowhere else, go the same way to the same result.
C16_ModeOnlyGatesComments ==
    ~SlashOutsideString(1, FALSE) =>
        /\ tokenize(text, "Json") = tokenize(text, "Jsonc")
        /\ NextInMode("Json") = NextInMode("Jsonc")

\* C16 witness: a parse has succeeded on a text that has a '/' inside a
\* string literal and none outside.
C16_SlashInsideString ==
    /\ ~SlashOutsideString(1, FALSE)
    /\ \E j \in 1..Len(text) : text[j] = Ord("/")
    /\ result.kind = "Doc"

\* C18: a block comment the input ends in fails with UnexpectedEndOfInput at
\* the line of the last character of the input and the column just after
\* it, whether or not the comment contains newlines; checked on the texts
\* that start with the comment.
C18_UnterminatedBlockComment ==
    (/\ it.mode = "Jsonc"
     /\ PeekChar(text, 1) = Ord("/")
     /\ PeekChar(text, 2) = Ord("*")
     /\ Len(log) = 1
     /\ log[1].kind = "Err")
        => log[1] = Err(UnexpectedEndOfInput(
                            Location(LineOf(Len(text)), ColumnOf(Len(text)) + 1, 0)))

\* The first and the last character of the block comment the lexer yielded
\* last.
CommentFirst == Last(log).token.loc.start.offset + 1

CommentLast == it.pos - 1

\* The last character of the block comment a text opens with: the '/' of
\* the first "*/" after the opening "/*" (0: the text opens with no
\* terminated block comment).
HeadCommentLast ==
    LET closers == {j \in 4..Len(text) :
                        text[j - 1] = Ord("*") /\ text[j] = Ord("/")}
    IN  IF /\ PeekChar(text, 1) = Ord("/")
           /\ PeekChar(text, 2) = Ord("*")
           /\ closers # {}
        THEN CHOOSE j \in closers : \A m \in closers : j <= m
        ELSE 0

\* The end location of a block comment whose first character is at s and
\* whose characters are first..last of the text.
BlockCommentEnd(s, first, last) ==
    LET newlines == {j \in first..last : text[j] = Ord("\n")} IN
    Location(s.line + Cardinality(newlines),
             IF newlines = {}
             THEN s.column + (last - first + 1)
             ELSE 1 + last - (CHOOSE j \in newlines : \A m \in newlines : m <= j),
             s.offset + (last - first + 1))

\* C19: a terminated block comment that starts at s, has n characters and k
\* newlines ends at offset s.offset + n, on line s.line + k, at column
\* s.column + n when k = 0 and otherwise at 1 + the number of its
\* characters after the last newline; checked on the comment the lexer
\* yielded last and on the comment a text opens with.
C19_BlockCommentEnd ==
    /\ LastTokenIs("BlockComment") =>
        /\ SubSeq(text, CommentFirst, CommentFirst + 1) = <<Ord("/"), Ord("*")>>
        /\ Last(log).token.loc.end =
               BlockCommentEnd(Last(log).token.loc.start, CommentFirst, CommentLast)
    /\ (it.mode = "Jsonc" /\ HeadCommentLast # 0 /\ log # <<>>) =>
           log[1] = Ok(Token("BlockComment", Location(1, 1, 0),
                             BlockCommentEnd(Location(1, 1, 0), 1, HeadCommentLast)))

\* C19 witness: the lexer has yielded the block comment a text opens with,
\* which has two newlines in a row, the second directly before its "*/".
C19_ConsecutiveNewlines ==
    /\ it.mode = "Jsonc"
    /\ HeadCommentLast >= 6
    /\ text[HeadCommentLast - 2] = Ord("\n")
    /\ text[HeadCommentLast - 3] = Ord("\n")
    /\ log # <<>>
    /\ log[1].kind = "Ok"

\* C20: every token other than a block comment starts and ends on the same
\* line and has no newline among its characters.
C20_TokensOnOneLine ==
    (/\ log # <<>>
     /\ NoLexerError
     /\ Last(log).kind = "Ok"
     /\ Last(log).token.kind # "BlockComment")
        => /\ Last(log).token.loc.start.line = Last(log).token.loc.end.line
           /\ \A j \in 1..Len(LastLexeme) : LastLexeme[j] # Ord("\n")

\* Every token the lexer has yielded ends no earlier than it starts, and no
\* later than any token yielded after it starts.
TokenOffsetsOrdered(items) ==
    \A i \in 1..Len(items) :
        items[i].kind = "Ok" =>
            /\ items[i].token.loc.start.offset <= items[i].token.loc.end.offset
            /\ \A j \in (i + 1)..Len(items) :
                   items[j].kind = "Ok" =>
                       items[i].token.loc.end.offset <= items[j].token.loc.start.offset

\* One step of the parser leaves the cursor's offset where it is or moves
\* it forward.
CursorMovesForward == it'.cursor.offset >= it.cursor.offset

\* C21: every token has start.offset <= end.offset, of two tokens the lexer
\* yields one after the other the first ends no later than the second
\* starts, both in what the parser pulls and in what tokenize returns, and
\* the cursor's offset never decreases.
C21_OffsetsNeverDecrease ==
    /\ [](/\ TokenOffsetsOrdered(log)
          /\ (log = <<>> /\ tokenize(text, it.mode).ok) =>
                 TokenOffsetsOrdered([i \in 1..Len(tokenize(text, it.mode).tokens) |->
                                          Ok(tokenize(text, it.mode).tokens[i])]))
    /\ [][CursorMovesForward]_vars

\* C21 witness: the lexer has yielded a token, a block comment after it and
\* a token after the comment.
C21_TokenCommentToken ==
    /\ Len(log) >= 3
    /\ \A i \in 1..3 : log[i].kind = "Ok"
    /\ log[2].token.kind = "BlockComment"
    /\ log[2].token.loc.start.offset >= log[1].token.loc.end.offset
    /\ log[2].token.loc.end.offset > log[2].token.loc.start.offset
    /\ log[3].token.loc.start.offset >= log[2].token.loc.end.offset

\* The first of the four characters from i on that is not a hexadecimal
\* digit (0: all four are).
FirstNonHex(i) ==
    IF \A j \in i..(i + 3) : is_ascii_hexdigit(PeekChar(text, j)) THEN 0
    ELSE CHOOSE j \in i..(i + 3) :
             /\ ~is_ascii_hexdigit(PeekChar(text, j))
             /\ \A m \in i..(j - 1) : is_ascii_hexdigit(PeekChar(text, m))

\* What a string is to be read as, the characters before i being read: it
\* ends with the quote at a given place, it has a character that is not
\* accepted at a given place, or the input ends in it.
RECURSIVE StringOutcome(_)
StringOutcome(i) ==
    IF i > Len(text) THEN [kind |-> "End"]
    ELSE IF text[i] = Ord("\"") THEN [kind |-> "String", last |-> i]
    ELSE IF text[i] # Ord("\\") THEN StringOutcome(i + 1)
    ELSE IF i + 1 > Len(text) THEN [kind |-> "End"]
    ELSE IF text[i + 1] \in SimpleEscapes THEN StringOutcome(i + 2)
    ELSE IF text[i + 1] # Ord("u") THEN [kind |-> "Character", at |-> i + 1]
    ELSE IF FirstNonHex(i + 2) = 0 THEN StringOutcome(i + 6)
    ELSE IF FirstNonHex(i + 2) > Len(text) THEN [kind |-> "End"]
    ELSE [kind |-> "Character", at |-> FirstNonHex(i + 2)]

\* C22: of a text that starts with a quote the lexer yields first a String
\* token that ends with the closing quote when every backslash before it is
\* followed by one of " \ / b f n r t or by u and four hexadecimal digits;
\* UnexpectedCharacter with the first character that breaks this, at that
\* character's line and column; UnexpectedEndOfInput when the input ends
\* inside an escape or before the closing quote.
C22_EscapesAreValidated ==
    (PeekChar(text, 1) = Ord("\"") /\ log # <<>>) =>
        LET Yields(o) ==
                CASE o.kind = "String" ->
                         /\ log[1].kind = "Ok"
                         /\ log[1].token.kind = "String"
                         /\ log[1].token.loc.end.offset = o.last
                  [] o.kind = "Character" ->
                         log[1] = Err(UnexpectedCharacter(
                                          text[o.at],
                                          Location(LineOf(o.at), ColumnOf(o.at), 0)))
                  [] o.kind = "End" ->
                         /\ log[1].kind = "Err"
                         /\ log[1].error.type = "UnexpectedEndOfInput"
        IN  Yields(StringOutcome(2))

\* The keyword the lexer reads when it dispatches on the character c.
KeywordFor(c) == CHOOSE w \in Keywords : w[1] = c

\* The number of characters of the text from i on that spell the start of
\* the word w.
MatchedChars(w, i) ==
    CHOOSE n \in 0..Len(w) :
        /\ \A m \in 1..n : PeekChar(text, i + m - 1) = w[m]
        /\ n < Len(w) => PeekChar(text, i + n) # w[n + 1]

\* What read_keyword is to return for the word w at character i of the
\* text, the cursor being c there.
KeywordOutcome(w, i, c) ==
    IF MatchedChars(w, i) = Len(w) THEN ROk(advance(c, Len(w)), i + Len(w))
    ELSE IF i + MatchedChars(w, i) <= Len(text)
    THEN RErr([type |-> "UnexpectedCharacter", c |-> text[i + MatchedChars(w, i)],
               line |-> c.line, column |-> c.column + MatchedChars(w, i)],
              i + MatchedChars(w, i))
    ELSE RErr([type |-> "UnexpectedEndOfInput",
               line |-> c.line, column |-> c.column + MatchedChars(w, i)],
              i + MatchedChars(w, i))

\* The first character of the text that is not whitespace.
FirstChar == SkipWhitespace(1)

\* C23: wherever an 'n', a 't' or an 'f' stands in the text, read_keyword
\* called there for null, true or false returns the token's end when the
\* word is spelled out, UnexpectedCharacter with the first character that
\* differs, or UnexpectedEndOfInput when the input ends first, both at the
\* start column plus the number of characters that matched; and when the
\* text starts with such a character, that is what the lexer yields first.
C23_KeywordMismatch ==
    /\ \A i \in 1..Len(text) :
           text[i] \in {Ord("n"), Ord("t"), Ord("f")} =>
               read_keyword(KeywordFor(text[i]), text, i,
                            Location(LineOf(i), ColumnOf(i), i - 1))
                   = KeywordOutcome(KeywordFor(text[i]), i,
                                    Location(LineOf(i), ColumnOf(i), i - 1))
    /\ (/\ PeekChar(text, FirstChar) \in {Ord("n"), Ord("t"), Ord("f")}
        /\ log # <<>>) =>
           LET Yields(o, c) ==
                   IF o.ok
                   THEN log[1] = Ok(Token(IF text[FirstChar] = Ord("n")
                                          THEN "Null" ELSE "Boolean", c, o.loc))
                   ELSE log[1] = Err(o.error)
           IN  Yields(KeywordOutcome(KeywordFor(text[FirstChar]), FirstChar,
                                     Location(LineOf(FirstChar), ColumnOf(FirstChar),
                                              FirstChar - 1)),
                      Location(LineOf(FirstChar), ColumnOf(FirstChar), FirstChar - 1))

\* C23 witness: parse has failed on a keyword that starts on the second
\* line after a space and breaks off at a wrong character after two
\* characters that matched.
C23_BrokenOnSecondLine ==
    /\ FirstChar = 3
    /\ PeekChar(text, FirstChar) \in {Ord("n"), Ord("t"), Ord("f")}
    /\ MatchedChars(KeywordFor(text[FirstChar]), FirstChar) = 2
    /\ pc = "done"
    /\ result.kind = "Err"
    /\ result.error.type = "UnexpectedCharacter"
    /\ result.error.line = 2

\* The state machine and the function agree: what the parse ends with is
\* what parse returns for the text, the mode and the option.
ParseIsTheFunction ==
    pc = "done" => result = parse(text, it.mode, allow_trailing_commas)

\* Every Member of the tree under node starts where its name starts and
\* ends where its value ends, and every Element is located as the value it
\* wraps.
RECURSIVE ItemsLocated(_)
ItemsLocated(node) ==
    CASE node.type = "Array" ->
             \A i \in 1..Len(node.elements) :
                 /\ node.elements[i].type = "Element"
                 /\ node.elements[i].loc = node.elements[i].value.loc
                 /\ ItemsLocated(node.elements[i].value)
      [] node.type = "Object" ->
             \A i \in 1..Len(node.members) :
                 /\ node.members[i].type = "Member"
                 /\ node.members[i].loc.start = node.members[i].name.loc.start
                 /\ node.members[i].loc.end = node.members[i].value.loc.end
                 /\ ItemsLocated(node.members[i].value)
      [] OTHER -> TRUE

\* C24: in the body of every successful parse each Member has loc.start =
\* name.loc.start and loc.end = value.loc.end, and each Element has the loc
\* of the value it wraps, whatever whitespace and comments stand between
\* the name, the ':' and the value.
C24_ItemLocations == result.kind = "Doc" => ItemsLocated(result.doc.body)

\* C24 witness: a successful parse of an object in which something stands
\* between a member's name and its ':', and a block comment between the ':'
\* and the value.
C24_MemberWithCommentInside ==
    /\ result.kind = "Doc"
    /\ result.doc.body.type = "Object"
    /\ \E i \in 2..(Len(result.doc.tokens) - 1) :
           /\ result.doc.tokens[i].kind = "Colon"
           /\ result.doc.tokens[i - 1].kind = "String"
           /\ result.doc.tokens[i - 1].loc.end.offset
                  < result.doc.tokens[i].loc.start.offset
           /\ result.doc.tokens[i + 1].kind = "BlockComment"

\* The text with every comment of toks replaced by one space: the
\* characters from the n-th on, toks being the tokens not yet passed.
RECURSIVE WithoutComments(_, _)
WithoutComments(n, toks) ==
    IF n > Len(text) THEN <<>>
    ELSE IF toks = <<>> THEN <<text[n]>> \o WithoutComments(n + 1, toks)
    ELSE IF Head(toks).loc.end.offset < n THEN WithoutComments(n, Tail(toks))
    ELSE IF IsComment(Head(toks)) /\ Head(toks).loc.start.offset = n - 1
    THEN <<Ord(" ")>> \o WithoutComments(Head(toks).loc.end.offset + 1, Tail(toks))
    ELSE <<text[n]>> \o WithoutComments(n + 1, toks)

\* A node without its locations: the kinds and the decoded values.
RECURSIVE Values(_)
Values(node) ==
    CASE node.type = "Array" ->
             [type |-> "Array",
              elements |-> [i \in 1..Len(node.elements) |->
                                Values(node.elements[i].value)]]
      [] node.type = "Object" ->
             [type |-> "Object",
              members |-> [i \in 1..Len(node.members) |->
                               [name |-> node.members[i].name.value,
                                value |-> Values(node.members[i].value)]]]
      [] node.type = "Null" -> [type |-> "Null"]
      [] OTHER -> [type |-> node.type, value |-> node.value]

\* C25: in JSONC mode, when the text with each of its comments replaced by
\* a space parses successfully, so does the text itself, and its body has
\* the same node kinds and the same decoded values.
C25_CommentsAreTransparent ==
    (/\ pc = "done"
     /\ it.mode = "Jsonc"
     /\ tokenize(text, "Jsonc").ok) =>
        LET Same(plain) ==
                plain.kind = "Doc" =>
                    /\ result.kind = "Doc"
                    /\ Values(result.doc.body) = Values(plain.doc.body)
        IN  Same(parse(WithoutComments(1, tokenize(text, "Jsonc").tokens),
                       "Jsonc", allow_trailing_commas))

\* C26: when the lexer has reached the end of the input and parse fails
\* for want of a token, the error is UnexpectedEndOfInput at the line and
\* column of the end of the input.
C26_EndOfInputPosition ==
    (/\ pc = "done"
     /\ NoLexerError
     /\ log # <<>>
     /\ Last(log).kind = "None"
     /\ result.kind = "Err") =>
        result = Err(UnexpectedEndOfInput(
                         Location(LineOf(Len(text) + 1), ColumnOf(Len(text) + 1), 0)))

\* C27: on every successful parse the line and the column of the end of
\* Document.loc are those the lexer's rules give for the end of the input:
\* a '\n' starts a new line at column 1, every other character, the '\r'
\* included, moves one column on.
C27_DocumentEndLineColumn ==
    result.kind = "Doc" =>
        /\ result.doc.loc.end.line = LineOf(Len(text) + 1)
        /\ result.doc.loc.end.column = ColumnOf(Len(text) + 1)

\* C28: whenever parse has succeeded without trailing commas being allowed,
\* parse_with_trailing_commas returns the same Document for the same text
\* in the same mode: the same body, the same locations, the same tokens.
C28_TrailingCommasExtendParse ==
    (pc = "done" /\ ~allow_trailing_commas /\ result.kind = "Doc") =>
        parse(text, it.mode, TRUE) = result

\* C28 witness: a parse without trailing commas allowed has succeeded on an
\* array of one element with a comment in it.
C28_ArrayWithComment ==
    /\ pc = "done"
    /\ ~allow_trailing_commas
    /\ result.kind = "Doc"
    /\ result.doc.body.type = "Array"
    /\ Len(result.doc.body.elements) = 1
    /\ \E i \in 1..Len(result.doc.tokens) : IsComment(result.doc.tokens[i])

\* The items among the n-th and later ones of q that are tokens.
OkItems(q, n) == {i \in n..Len(q) : q[i].kind = "Ok"}

\* One step of the parser: for every token the lexer yields in it, the
\* lexer moves on by a character at least.
LexerStepsConsume == it'.pos - it.pos >= Cardinality(OkItems(log', Len(log) + 1))

\* Where the parser stands, as the number of steps it can still take
\* without a token being consumed.
Rank(s) ==
    CASE s = "done" -> 0
      [] s \in {"parse_value", "object_colon", "array_close", "object_close",
                "parse_tail"} -> 1
      [] s \in {"array_loop", "object_loop"} -> 2
      [] s \in {"array_after", "object_after"} -> 3

\* The characters the lexer has not read, the end of the input and the
\* token in the peeked slot, each good for four steps of the parser.
StepsLeft ==
    4 * ((Len(text) + 1 - it.pos) + (IF peeked # None THEN 1 ELSE 0)) + Rank(pc)

\* C29: every step of parse brings the end nearer: StepsLeft, which starts
\* at no more than four times the length of the input plus seven and is
\* never negative, goes down with every step, so that a parse takes a
\* number of steps bounded by the length of the input; the lexer moves on
\* by a character at least for every token it yields, so that it yields
\* no more tokens than the input has characters; it is asked at most
\* once per character of the input and three times more, for errors and
\* for the end of the input; every token
\* recorded was yielded by the lexer, once; every array or object
\* entered and every item read has taken a token of its own.
C29_ParseTerminates ==
    /\ [](/\ StepsLeft \in 0..(4 * Len(text) + 7)
          /\ Cardinality(OkItems(log, 1)) <= Len(text)
          /\ Len(log) <= Len(text) + 3
          /\ Len(tokens) <= Cardinality(OkItems(log, 1))
          /\ Len(stack) <= Len(tokens)
          /\ \A i \in 1..Len(stack) :
                 Len(stack[i].items) < Cardinality(OkItems(log, 1)))
    /\ [][StepsLeft' < StepsLeft /\ LexerStepsConsume]_vars

\* C29 witness: a parse has ended that went round the loop of parse_array
\* twice, once for an element and once for the bracket after the comma.
C29_EndedAfterLoops ==
    /\ pc = "done"
    /\ allow_trailing_commas
    /\ result.kind = "Doc"
    /\ result.doc.body.type = "Array"
    /\ Len(result.doc.body.elements) = 1
    /\ \E i \in 1..Len(result.doc.tokens) : result.doc.tokens[i].kind = "Comma"

\* What of the parser the second of two calls must leave alone.
ParserState(p) == <<p.it, p.tokens, p.loc, p.peeked>>

\* C30: wherever parse stands, peek_token called twice in a row returns the
\* same both times (the same token, the same error, or the end of the input
\* both times), and the second call leaves the position of the lexer, the
\* tokens recorded, loc and the peeked slot as the first call left them.
C30_PeekTwiceIsPeekOnce ==
    LET Second(first) ==
            LET Same(second) ==
                    /\ second.r = first.r
                    /\ ParserState(second.p) = ParserState(first.p)
            IN  Same(peek_token(first.p))
    IN  Second(peek_token(P))

=============================================================================
